---- MODULE Spec2Model ----
(***************************************************************************)
(* The algorithm channel of the micromouse simulator                       *)
(* (src/src/sim/Controller.cpp) and the in-process start-up of             *)
(* src/src/Main.cpp.                                                       *)
(*                                                                         *)
(* A QString is a sequence of characters, a QStringList a sequence of      *)
(* QStrings.  A read of the child's diagnostic stream is the QString       *)
(* `input` of processMouseAlgoStderr, i.e. the text of the read.           *)
(* The main thread and the worker thread are two processes; the queued     *)
(* signal/slot connections between them are FIFO event queues.             *)
(***************************************************************************)
EXTENDS Integers, Sequences, FiniteSets, TLC

(* ------------------------------ bounds -------------------------------- *)

\* Characters the child writes on its diagnostic stream in a protocol run.
MaxText == 4
\* Reads of the diagnostic stream in one run, empty reads included.
MaxReads == 3
\* Planning epochs of one run of the search engine.
MaxEpochs == 257
\* Zoom steps of the zoomed map, in and out, from its first scale.
MaxZoom == 2

(* ------------------------------- text --------------------------------- *)

NL == "\n"

\* The protocol alphabet of the model: two command letters and the terminator.
Char == {"m", "f", NL}

LineChar == Char \ {NL}

TextsUpTo(n) == UNION {[1..k -> Char] : k \in 0..n}

\* The line that finalizes the static options, and a discrete step request.
FinalizeLine == <<"f">>

DiscreteLine == <<"m">>

\* What the worker answers: nothing to an empty line and to the finalizing
\* line, and one line of text, here the text of the command, to any other.
workerResponse(command) ==
    IF command = FinalizeLine THEN << >> ELSE command

\* QString::split("\n") with the default KeepEmptyParts:
\* one part more than there are separators.
RECURSIVE split(_)
split(s) ==
    IF \A i \in 1..Len(s) : s[i] # NL
    THEN << s >>
    ELSE LET k == CHOOSE i \in 1..Len(s) :
                      s[i] = NL /\ \A j \in 1..(i - 1) : s[j] # NL
         IN  << SubSeq(s, 1, k - 1) >> \o split(SubSeq(s, k + 1, Len(s)))

\* QStringList::join("").
RECURSIVE join(_)
join(lines) ==
    IF lines = << >> THEN << >> ELSE Head(lines) \o join(Tail(lines))

(* ------------------- processMouseAlgoStderr, pure part ----------------- *)

\* Variant: the buffered fragments are not put before the first line.
MutCommandsDropPrefix(lines, input) ==
    LET inputLines == split(input)
        n == Len(inputLines)
    IN  [i \in 1..(n - 1) |-> inputLines[i]]

\* Variant: the loop runs to the last part, so the fragment is a command too.
MutCommandsAll(lines, input) ==
    LET inputLines == split(input)
        n == Len(inputLines)
    IN  IF 1 < n
        THEN << join(lines) \o inputLines[1] >>
                 \o [i \in 1..(n - 1) |-> inputLines[i + 1]]
        ELSE << >>

\* The QStringList `commands` built from the buffered fragments and a read.
stderrCommands(lines, input) ==
    LET inputLines == split(input)
        n == Len(inputLines)
        first == IF 1 < n THEN << join(lines) \o inputLines[1] >> ELSE << >>
        middle == [i \in 1..(IF 2 < n THEN n - 2 ELSE 0) |-> inputLines[i + 1]]
    IN  first \o middle

\* Variant: m_inputLines is not cleared when a line ended.
MutInputLinesNoClear(lines, input) ==
    LET inputLines == split(input)
    IN  Append(lines, inputLines[Len(inputLines)])

\* m_inputLines after the read: cleared when a line ended, then the
\* beginning of the incomplete line appended.
stderrInputLines(lines, input) ==
    LET inputLines == split(input)
        n == Len(inputLines)
    IN  Append(IF 1 < n THEN << >> ELSE lines, inputLines[n])

\* Variant: the commands are posted last first, ahead of those pending.
MutEmitReversed(queue, ids) ==
    [i \in 1..Len(ids) |-> ids[Len(ids) + 1 - i]] \o queue

\* The loop of `emit passCommandToWorker(commands.at(i))`: the connection to
\* the worker is queued, so each emit posts one event behind those pending.
passCommandToWorker(queue, ids) ==
    queue \o ids

\* Variant: the isEmpty test is missing.
MutAlwaysWrite(response) ==
    Append(response, NL)

\* What receiveResultFromWorker writes to the child for one result.
responseBytes(response) ==
    IF response # << >> THEN Append(response, NL) ELSE << >>

(* --------------------------- static options --------------------------- *)

\* The keys of STRING_TO_INTERFACE_TYPE and of STRING_TO_DIRECTION.
STRING_TO_INTERFACE_TYPE == {"DISCRETE", "CONTINUOUS"}

STRING_TO_DIRECTION == {"NORTH", "EAST", "SOUTH", "WEST"}

OPENING_DIRECTION_STRING == "OPENING"

WALL_DIRECTION_STRING == "WALL"

\* A double is <<"num", thousandths>> or <<"nan", 0>>; as in IEEE 754 every
\* comparison with a NaN is false.
Num(milli) == <<"num", milli>>

NaN == <<"nan", 0>>

LeqD(a, b) == a[1] = "num" /\ b[1] = "num" /\ a[2] <= b[2]

\* What an algorithm may declare.
DeclaredInterfaceTypes == STRING_TO_INTERFACE_TYPE \cup {"SIDEWAYS"}

DeclaredDirections ==
    STRING_TO_DIRECTION \cup {OPENING_DIRECTION_STRING, WALL_DIRECTION_STRING, "UP"}

DeclaredTileText == {<<0, 0>>, <<1, 1>>, <<0 - 1, 0>>, <<0, 0 - 1>>}

DeclaredSpeeds == {Num(0 - 1), Num(0), Num(500), Num(1000), Num(1001), NaN}

Options(t, d, rc, f) ==
    [interfaceType |-> t, initialDirection |-> d,
     tileTextNumberOfRows |-> rc[1], tileTextNumberOfCols |-> rc[2],
     wheelSpeedFraction |-> f, mouseFile |-> "mouse.xml"]

AllOptions ==
    {Options(t, d, rc, f) : t \in DeclaredInterfaceTypes, d \in DeclaredDirections,
                            rc \in DeclaredTileText, f \in DeclaredSpeeds}

\* The declarations of the protocol runs: two valid ones and an invalid one.
FewOptions ==
    {Options("DISCRETE", "NORTH", <<0, 0>>, Num(1000)),
     Options("CONTINUOUS", "OPENING", <<1, 1>>, Num(500)),
     Options("SIDEWAYS", "WALL", <<0, 0>>, Num(0))}

\* m_staticOptions before any declaration.
NoOptions == Options("", "", <<0, 0>>, Num(0))

\* Variant: every interface type passes.
MutInterfaceTypeAny(interfaceType) ==
    TRUE

\* The conditions of the four validate* methods: TRUE when the method returns,
\* FALSE when it calls SimUtilities::quit().
validateMouseInterfaceType(interfaceType) ==
    interfaceType \in STRING_TO_INTERFACE_TYPE

\* Variant: the two derived policies are not accepted.
MutDirectionCardinalOnly(initialDirection) ==
    initialDirection \in STRING_TO_DIRECTION

validateMouseInitialDirection(initialDirection) ==
    \/ initialDirection \in STRING_TO_DIRECTION
    \/ initialDirection = OPENING_DIRECTION_STRING
    \/ initialDirection = WALL_DIRECTION_STRING

\* Variant: zero is refused too (<= in place of <).
MutTileTextPositive(tileTextNumberOfRows, tileTextNumberOfCols) ==
    ~(tileTextNumberOfRows <= 0 \/ tileTextNumberOfCols <= 0)

validateTileTextRowsAndCols(tileTextNumberOfRows, tileTextNumberOfCols) ==
    ~(tileTextNumberOfRows < 0 \/ tileTextNumberOfCols < 0)

\* Variant: the upper end is excluded (< in place of <=).
MutSpeedOpenInterval(wheelSpeedFraction) ==
    /\ LeqD(Num(0), wheelSpeedFraction) /\ LeqD(wheelSpeedFraction, Num(1000))
    /\ wheelSpeedFraction # Num(1000)

validateMouseWheelSpeedFraction(wheelSpeedFraction) ==
    LeqD(Num(0), wheelSpeedFraction) /\ LeqD(wheelSpeedFraction, Num(1000))

\* QMap::value of a key the map does not hold: a default-constructed Direction.
DefaultDirection == "NORTH"

\* Variant: the two ternaries are exchanged.
MutDirectionPoliciesSwapped(initialDirection, wallNorth, wallEast) ==
    IF initialDirection \notin STRING_TO_DIRECTION /\ wallNorth = wallEast
    THEN "NORTH"
    ELSE IF initialDirection = OPENING_DIRECTION_STRING
    THEN (IF wallNorth THEN "NORTH" ELSE "EAST")
    ELSE IF initialDirection = WALL_DIRECTION_STRING
    THEN (IF wallNorth THEN "EAST" ELSE "NORTH")
    ELSE initialDirection

\* Variant: the first test (both sides alike) is missing.
MutDirectionNoTieRule(initialDirection, wallNorth, wallEast) ==
    IF initialDirection = OPENING_DIRECTION_STRING
    THEN (IF wallNorth THEN "EAST" ELSE "NORTH")
    ELSE IF initialDirection = WALL_DIRECTION_STRING
    THEN (IF wallNorth THEN "NORTH" ELSE "EAST")
    ELSE initialDirection

\* The direction the mouse is initialized with.
getInitialDirection(initialDirection, wallNorth, wallEast) ==
    IF initialDirection \notin STRING_TO_DIRECTION /\ wallNorth = wallEast
    THEN "NORTH"
    ELSE IF initialDirection = OPENING_DIRECTION_STRING
    THEN (IF wallNorth THEN "EAST" ELSE "NORTH")
    ELSE IF initialDirection = WALL_DIRECTION_STRING
    THEN (IF wallNorth THEN "NORTH" ELSE "EAST")
    ELSE IF initialDirection \in STRING_TO_DIRECTION
    THEN initialDirection
    ELSE DefaultDirection

(* ------------------------------- state -------------------------------- *)

VARIABLES
    pc,                         \* where the Controller constructor is
    startup,                    \* what startMouseAlgorithm finds on disk
    scenario,                   \* "protocol", "polling" or "startup": what the
                                \* algorithm, the maze and the mouse file of
                                \* this run may be, and how much text the child
                                \* writes
    m_process,                  \* "null", "running", or "finished" once the
                                \* child has exited and its pipes are drained
    m_staticOptionsFinalized,
    m_staticOptions,
    m_mouseInterface,           \* TRUE when not null
    m_inputLines,
    mouse,                      \* the model's Mouse and what was read for it
    workerQueue,                \* events posted to the worker thread
    workerCurrent,              \* the command processCommand runs on, 0 if none
    mainEvents,                 \* commandProcessed events posted to the main thread
    childStdin,                 \* what was written to the child's input stream
    received,                   \* history: all the text read from the diagnostic stream
    lastRead,                   \* history: the number and the text of the last read
    emitted,                    \* history: the commands passed to the worker
    workLog,                    \* history: processCommand's starts and returns
    delivered,                  \* history: the results receiveResultFromWorker got
    stdoutLogged,               \* history: the lines of the ordinary output stream logged
    solver,                     \* Main.cpp: the solving thread and what it finds
    S,                          \* Main.cpp: the State singleton
    glut,                       \* Main.cpp, history: the kind of the last input
                                \* event, its key if a keyPress, and a bit that
                                \* every input event flips
    epoch,                      \* mackAlgoTwo: the number of the planning epoch
    info                        \* mackAlgoTwo: the Info record of one cell

vars ==
    <<pc, startup, scenario, m_process, m_staticOptionsFinalized,
      m_staticOptions, m_mouseInterface, m_inputLines, mouse, workerQueue,
      workerCurrent, mainEvents, childStdin, received, lastRead, emitted,
      workLog, delivered, stdoutLogged, solver, S, glut, epoch, info>>

channelVars ==
    <<m_inputLines, workerQueue, workerCurrent, mainEvents, childStdin, received,
      lastRead, emitted, workLog, delivered, stdoutLogged>>

mainVars == <<solver, S, glut>>

searchVars == <<epoch, info>>

\* What no event handler of the Controller and no step of its worker changes.
envVars == <<startup, scenario, mainVars, searchVars>>

\* The walls of tile (0, 0), the outcome of Mouse::initialize and the answers
\* of MouseChecker for the mouse file.
World(wn, we, ok, dc, cc) ==
    [wallNorth |-> wn, wallEast |-> we, success |-> ok,
     discreteCompatible |-> dc, continuousCompatible |-> cc]

AllWorlds ==
    {World(wn, we, ok, dc, cc) : wn \in BOOLEAN, we \in BOOLEAN, ok \in BOOLEAN,
                                 dc \in BOOLEAN, cc \in BOOLEAN}

FewWorlds ==
    {World(TRUE, FALSE, TRUE, TRUE, TRUE), World(TRUE, TRUE, FALSE, TRUE, TRUE)}

\* `evaluated` is history: the checks initAndValidateMouse made, in order.
NoMouse ==
    [initialized |-> FALSE, success |-> FALSE, direction |-> "",
     wallNorth |-> FALSE, wallEast |-> FALSE,
     discreteCompatible |-> FALSE, continuousCompatible |-> FALSE,
     evaluated |-> << >>]

\* The member initializers and the worker set-up of the constructor.
\* What a run of each scenario ranges over.
declarable == IF scenario \in {"protocol", "polling"} THEN FewOptions ELSE AllOptions

worlds == IF scenario \in {"protocol", "polling"} THEN FewWorlds ELSE AllWorlds

\* A start-up run has the text of one declaration, a polling run one
\* character less than a protocol run.
textLimit ==
    IF scenario = "protocol" THEN MaxText
    ELSE IF scenario = "polling" THEN MaxText - 1
    ELSE Len(FinalizeLine) + 1

ControllerInit(kind, at, disk) ==
    /\ pc = at
    /\ startup \in disk
    /\ scenario = kind
    /\ m_process = "null"
    /\ m_staticOptionsFinalized = FALSE
    /\ m_staticOptions = NoOptions
    /\ m_mouseInterface = FALSE
    /\ m_inputLines = << >>
    /\ mouse = NoMouse
    /\ workerQueue = << >>
    /\ workerCurrent = 0
    /\ mainEvents = << >>
    /\ childStdin = << >>
    /\ received = << >>
    /\ lastRead = [n |-> 0, input |-> << >>]
    /\ emitted = << >>
    /\ workLog = << >>
    /\ delivered = << >>
    /\ stdoutLogged = {}

\* `checked` is history: what startMouseAlgorithm looked at, in order.
Disk ==
    [isTopLevelDir : BOOLEAN, hasMainCpp : BOOLEAN, buildExitCode : {0, 1},
     checked : {<< >>}]

\* The Info record of a cell: its 8-bit stamp and its distance; `written` is
\* history, the epoch in which the record was last written, -1 if never.
NoSearch ==
    /\ epoch = 0
    /\ info = [sequenceNumber |-> 0, distance |-> 0, written |-> 0 - 1]

\* The special-key codes of the runs: two arrow keys, the code of a key that
\* is no arrow key, and a code INT_TO_KEY has no entry for.
SpecialCodes == {100, 101, 32, 1}

\* INT_TO_KEY and ARROW_KEYS, as far as the runs go.
INT_TO_KEY == (100 :> "LEFT") @@ (101 :> "UP") @@ (32 :> "SPACE")

ARROW_KEYS == {"LEFT", "UP"}

\* Main.cpp is not running.
NoSolver ==
    [pc |-> "off", algorithmKnown |-> FALSE, initializeSuccess |-> FALSE,
     interfaceType |-> "", unfogTileOnEntry |-> FALSE,
     mouseInitialized |-> FALSE, startTileFoggy |-> TRUE, solveInvoked |-> FALSE]

\* zoomedMapScale is counted in factors of 1.5 from the first scale.
NoState ==
    [interfaceType |-> "", paused |-> FALSE, layout |-> "FULL",
     rotateZoomedMap |-> FALSE, zoomedMapScale |-> 0,
     arrowKeyIsPressed |-> [key \in ARROW_KEYS |-> FALSE]]

\* `last` is the kind of the last special-key event of each arrow key.
NoEvent ==
    [tick |-> 0, kind |-> "none", key |-> "",
     last |-> [key \in ARROW_KEYS |-> "none"]]

Init ==
    /\ ControllerInit("protocol", "startMouseAlgorithm", Disk)
    /\ solver = NoSolver
    /\ S = NoState
    /\ glut = NoEvent
    /\ NoSearch

InitStartup ==
    /\ ControllerInit("startup", "startMouseAlgorithm", Disk)
    /\ solver = NoSolver
    /\ S = NoState
    /\ glut = NoEvent
    /\ NoSearch

InitPolling ==
    /\ ControllerInit("polling", "startMouseAlgorithm", Disk)
    /\ solver = NoSolver
    /\ S = NoState
    /\ glut = NoEvent
    /\ NoSearch

\* SimUtilities::quit(): the simulator terminates.
quit ==
    pc' = "quit"

(* ------------------------- the main thread ---------------------------- *)

\* Variant: the child is started whatever the build's exit code is.
MutStartDespiteBuild(isTopLevelDir, hasMainCpp, buildExitCode) ==
    IF ~isTopLevelDir
    THEN [checked |-> <<"directory">>, start |-> FALSE]
    ELSE IF ~hasMainCpp
    THEN [checked |-> <<"directory", "Main.cpp">>, start |-> FALSE]
    ELSE [checked |-> <<"directory", "Main.cpp", "build">>, start |-> TRUE]

\* What startMouseAlgorithm looks at, in order, up to the first failure, and
\* whether it starts the child: the directory of the algorithm, its Main.cpp,
\* the exit code of the build.
startChecks(isTopLevelDir, hasMainCpp, buildExitCode) ==
    IF ~isTopLevelDir
    THEN [checked |-> <<"directory">>, start |-> FALSE]
    ELSE IF ~hasMainCpp
    THEN [checked |-> <<"directory", "Main.cpp">>, start |-> FALSE]
    ELSE [checked |-> <<"directory", "Main.cpp", "build">>,
          start |-> buildExitCode = 0]

startMouseAlgorithm ==
    /\ pc = "startMouseAlgorithm"
    /\ LET to == startChecks(startup.isTopLevelDir, startup.hasMainCpp,
                             startup.buildExitCode)
       IN  /\ startup' = [startup EXCEPT !.checked = to.checked]
           /\ \/ /\ to.start
                 /\ m_process' = "running"
                 /\ pc' = "wait"
              \/ /\ ~to.start
                 /\ quit
                 /\ UNCHANGED m_process
    /\ UNCHANGED <<scenario, mainVars, searchVars, m_staticOptionsFinalized,
                   m_staticOptions, m_mouseInterface, mouse, channelVars>>

\* The main thread handles events in the constructor's polling loop
\* (QCoreApplication::processEvents) and, once constructed, in the event loop.
handlesEvents ==
    pc \in {"wait", "done"} /\ m_process # "null"

\* The readyRead signals come while the child runs or its pipes hold text.
readyRead ==
    handlesEvents /\ m_process = "running"

processMouseAlgoStderr(input) ==
    /\ readyRead
    /\ lastRead.n < MaxReads
    /\ Len(received) + Len(input) <= textLimit
    /\ LET commands == stderrCommands(m_inputLines, input)
           ids == [i \in 1..Len(commands) |-> Len(emitted) + i]
       IN  /\ m_inputLines' = stderrInputLines(m_inputLines, input)
           /\ emitted' = emitted \o commands
           /\ workerQueue' = passCommandToWorker(workerQueue, ids)
    /\ received' = received \o input
    /\ lastRead' = [n |-> lastRead.n + 1, input |-> input]
    /\ UNCHANGED <<pc, envVars, m_process, m_staticOptionsFinalized,
                   m_staticOptions, m_mouseInterface, mouse, workerCurrent,
                   mainEvents, childStdin, workLog, delivered, stdoutLogged>>

\* output.split("\n", QString::SkipEmptyParts), as a set of lines.
stdoutLines(output) ==
    {split(output)[i] : i \in 1..Len(split(output))} \ {<< >>}

\* Variant: the output is logged and then framed and passed on like a read of
\* the diagnostic stream.
MutStdoutAsProtocol(output) ==
    /\ readyRead
    /\ stdoutLogged' = stdoutLogged \cup stdoutLines(output)
    /\ LET commands == stderrCommands(m_inputLines, output)
           ids == [i \in 1..Len(commands) |-> Len(emitted) + i]
       IN  /\ m_inputLines' = stderrInputLines(m_inputLines, output)
           /\ emitted' = emitted \o commands
           /\ workerQueue' = passCommandToWorker(workerQueue, ids)
    /\ UNCHANGED <<pc, envVars, m_process, m_staticOptionsFinalized,
                   m_staticOptions, m_mouseInterface, mouse, workerCurrent,
                   mainEvents, childStdin, received, lastRead, workLog, delivered>>

\* The non-empty lines of the ordinary output stream are only logged.
processMouseAlgoStdout(output) ==
    /\ readyRead
    /\ stdoutLogged' = stdoutLogged \cup stdoutLines(output)
    /\ UNCHANGED <<pc, envVars, m_process, m_staticOptionsFinalized,
                   m_staticOptions, m_mouseInterface, mouse, m_inputLines,
                   workerQueue, workerCurrent, mainEvents, childStdin, received,
                   lastRead, emitted, workLog, delivered>>

\* Variant: the newest commandProcessed event is handled first.
MutReceiveNewestFirst ==
    /\ handlesEvents
    /\ mainEvents # << >>
    /\ LET result == mainEvents[Len(mainEvents)].response
       IN  /\ childStdin' = childStdin \o responseBytes(result)
           /\ delivered' = Append(delivered, result)
    /\ mainEvents' = SubSeq(mainEvents, 1, Len(mainEvents) - 1)
    /\ UNCHANGED <<pc, envVars, m_process, m_staticOptionsFinalized,
                   m_staticOptions, m_mouseInterface, mouse, m_inputLines,
                   workerQueue, workerCurrent, received, lastRead, emitted,
                   workLog, stdoutLogged>>

\* The commandProcessed events reach the main thread over a queued
\* connection: the oldest is handled first.
receiveResultFromWorker ==
    /\ handlesEvents
    /\ mainEvents # << >>
    /\ LET result == Head(mainEvents).response
       IN  /\ childStdin' = childStdin \o responseBytes(result)
           /\ delivered' = Append(delivered, result)
    /\ mainEvents' = Tail(mainEvents)
    /\ UNCHANGED <<pc, envVars, m_process, m_staticOptionsFinalized,
                   m_staticOptions, m_mouseInterface, mouse, m_inputLines,
                   workerQueue, workerCurrent, received, lastRead, emitted,
                   workLog, stdoutLogged>>

\* Variant: the wait gives up and the run ends.
MutWaitTimesOut ==
    /\ pc = "wait"
    /\ quit
    /\ UNCHANGED <<envVars, m_process, m_staticOptionsFinalized, m_staticOptions,
                   m_mouseInterface, mouse, channelVars>>

\* Variant: a handler of the exit passes the buffered fragment on as a command.
MutExitFlushesBuffer ==
    /\ pc # "quit"
    /\ m_process = "running"
    /\ m_process' = "finished"
    /\ emitted' = Append(emitted, join(m_inputLines))
    /\ workerQueue' = passCommandToWorker(workerQueue, <<Len(emitted) + 1>>)
    /\ m_inputLines' = << >>
    /\ UNCHANGED <<pc, envVars, m_staticOptionsFinalized, m_staticOptions,
                   m_mouseInterface, mouse, workerCurrent, mainEvents, childStdin,
                   received, lastRead, workLog, delivered, stdoutLogged>>

\* The child exits or crashes: startMouseAlgorithm connected nothing to the
\* finished and errorOccurred signals of the process, so no slot runs.
childExits ==
    /\ pc # "quit"
    /\ m_process = "running"
    /\ m_process' = "finished"
    /\ UNCHANGED <<pc, envVars, m_staticOptionsFinalized, m_staticOptions,
                   m_mouseInterface, mouse, channelVars>>

\* The polling loop ends once the options are finalized.
waitForStaticOptions ==
    /\ pc = "wait"
    /\ m_staticOptionsFinalized
    /\ pc' = "validateMouseInterfaceType"
    /\ UNCHANGED <<envVars, m_process, m_staticOptionsFinalized, m_staticOptions,
                   m_mouseInterface, mouse, channelVars>>

\* One validate* call of the constructor: on to `next`, or quit.
validateStep(here, ok, next) ==
    /\ pc = here
    /\ IF ok THEN pc' = next ELSE quit
    /\ UNCHANGED <<envVars, m_process, m_staticOptionsFinalized, m_staticOptions,
                   m_mouseInterface, mouse, channelVars>>

callValidateMouseInterfaceType ==
    validateStep("validateMouseInterfaceType",
                 validateMouseInterfaceType(m_staticOptions.interfaceType),
                 "validateMouseInitialDirection")

callValidateMouseInitialDirection ==
    validateStep("validateMouseInitialDirection",
                 validateMouseInitialDirection(m_staticOptions.initialDirection),
                 "validateTileTextRowsAndCols")

callValidateTileTextRowsAndCols ==
    validateStep("validateTileTextRowsAndCols",
                 validateTileTextRowsAndCols(m_staticOptions.tileTextNumberOfRows,
                                             m_staticOptions.tileTextNumberOfCols),
                 "validateMouseWheelSpeedFraction")

callValidateMouseWheelSpeedFraction ==
    validateStep("validateMouseWheelSpeedFraction",
                 validateMouseWheelSpeedFraction(m_staticOptions.wheelSpeedFraction),
                 "initAndValidateMouse")

\* Variant: either compatibility is enough, whatever the interface type.
MutCompatibleEither(interfaceType, success, discreteOk, continuousOk) ==
    success /\ (discreteOk \/ continuousOk)

\* Whether initAndValidateMouse returns rather than quits.
mouseAccepted(interfaceType, success, discreteOk, continuousOk) ==
    /\ success
    /\ IF interfaceType = "DISCRETE" THEN discreteOk ELSE continuousOk

\* The checks initAndValidateMouse makes, in order: the MouseChecker is
\* asked only about a mouse that was initialized with success.
mouseChecks(success) ==
    IF success THEN <<"initialize", "compatible">> ELSE <<"initialize">>

\* The walls of tile (0, 0), the outcome of Mouse::initialize and the two
\* MouseChecker answers are read here, all before the first check.
initAndValidateMouse ==
    /\ pc = "initAndValidateMouse"
    /\ \E w \in worlds :
          /\ mouse' = [initialized |-> TRUE, success |-> w.success,
                       direction |-> getInitialDirection(
                           m_staticOptions.initialDirection, w.wallNorth, w.wallEast),
                       wallNorth |-> w.wallNorth, wallEast |-> w.wallEast,
                       discreteCompatible |-> w.discreteCompatible,
                       continuousCompatible |-> w.continuousCompatible,
                       evaluated |-> mouseChecks(w.success)]
          /\ IF mouseAccepted(m_staticOptions.interfaceType, w.success,
                              w.discreteCompatible, w.continuousCompatible)
             THEN pc' = "newMouseInterface"
             ELSE quit
    /\ UNCHANGED <<envVars, m_process, m_staticOptionsFinalized, m_staticOptions,
                   m_mouseInterface, channelVars>>

newMouseInterface ==
    /\ pc = "newMouseInterface"
    /\ m_mouseInterface' = TRUE
    /\ pc' = "done"
    /\ UNCHANGED <<envVars, m_process, m_staticOptionsFinalized, m_staticOptions,
                   mouse, channelVars>>

(* ------------------------- the worker thread -------------------------- *)

\* The worker thread's event loop takes the oldest posted command and calls
\* Worker::processCommand on it.
workerTakesCommand ==
    /\ pc # "quit"
    /\ workerCurrent = 0
    /\ workerQueue # << >>
    /\ workerCurrent' = Head(workerQueue)
    /\ workerQueue' = Tail(workerQueue)
    /\ workLog' = Append(workLog, <<"start", Head(workerQueue)>>)
    /\ UNCHANGED <<pc, envVars, m_process, m_staticOptionsFinalized,
                   m_staticOptions, m_mouseInterface, mouse, m_inputLines,
                   mainEvents, childStdin, received, lastRead, emitted, delivered,
                   stdoutLogged>>

\* Worker::processCommand returns: the finalizing line publishes the declared
\* options; every command ends in commandProcessed(response).
processCommand ==
    /\ pc # "quit"
    /\ workerCurrent # 0
    /\ mainEvents' = Append(mainEvents, [id |-> workerCurrent,
                                         response |-> workerResponse(emitted[workerCurrent])])
    /\ IF emitted[workerCurrent] = FinalizeLine
       THEN /\ m_staticOptionsFinalized' = TRUE
            /\ \E options \in declarable : m_staticOptions' = options
       ELSE UNCHANGED <<m_staticOptionsFinalized, m_staticOptions>>
    /\ workLog' = Append(workLog, <<"finish", workerCurrent>>)
    /\ workerCurrent' = 0
    /\ UNCHANGED <<pc, envVars, m_process, m_mouseInterface, mouse, m_inputLines,
                   workerQueue, childStdin, received, lastRead, emitted, delivered,
                   stdoutLogged>>

(* ------------------------------ Main.cpp ------------------------------ *)

\* The successor of each layout in LAYOUT_CYCLE.
LAYOUT_CYCLE ==
    [layout \in {"FULL", "ZOOMED", "BOTH"} |->
        CASE layout = "FULL" -> "ZOOMED"
          [] layout = "ZOOMED" -> "BOTH"
          [] layout = "BOTH" -> "FULL"]

\* The keys of the runs: pause, next layout, rotate the zoomed map, zoom in
\* and out, quit.
Keys == {" ", "l", "r", "i", "o", "q"}

InitMain ==
    /\ ControllerInit("main", "off", {[isTopLevelDir |-> FALSE, hasMainCpp |-> FALSE,
                                      buildExitCode |-> 0, checked |-> << >>]})
    /\ solver \in [pc : {"checkAlgorithm"}, algorithmKnown : BOOLEAN,
                   initializeSuccess : BOOLEAN,
                   interfaceType : DeclaredInterfaceTypes,
                   unfogTileOnEntry : BOOLEAN, mouseInitialized : {FALSE},
                   startTileFoggy : {TRUE}, solveInvoked : {FALSE}]
    /\ S \in [interfaceType : {""}, paused : {FALSE},
              layout : DOMAIN LAYOUT_CYCLE, rotateZoomedMap : {FALSE},
              zoomedMapScale : {0},
              arrowKeyIsPressed : {[key \in ARROW_KEYS |-> FALSE]}]
    /\ glut = NoEvent
    /\ NoSearch

controllerVars ==
    <<pc, startup, scenario, m_process, m_staticOptionsFinalized, m_staticOptions,
      m_mouseInterface, mouse, channelVars>>

\* What the threads of Main.cpp leave alone.
notMainVars == <<controllerVars, searchVars>>

\* solve(): the algorithm's name must be in the map of algorithms.
solveCheckAlgorithm ==
    /\ solver.pc = "checkAlgorithm"
    /\ solver' = [solver EXCEPT
                     !.pc = IF solver.algorithmKnown THEN "initializeMouse" ELSE "quit"]
    /\ UNCHANGED <<S, glut, notMainVars>>

\* Variant: the interface type is checked before the mouse is initialized.
MutInitializeAfterTypeCheck(at, interfaceType, success) ==
    IF at = "initializeMouse"
    THEN [pc |-> "checkInterfaceType", mouseInitialized |-> FALSE]
    ELSE IF interfaceType \notin STRING_TO_INTERFACE_TYPE
    THEN [pc |-> "quit", mouseInitialized |-> FALSE]
    ELSE [pc |-> IF success THEN "sleep" ELSE "quit", mouseInitialized |-> TRUE]

\* solve(): where the thread goes from `at`, and whether Mouse::initialize was
\* called by then: the mouse is initialized first, the interface type is
\* checked second.
solveStartup(at, interfaceType, success) ==
    IF at = "initializeMouse"
    THEN [pc |-> IF success THEN "checkInterfaceType" ELSE "quit",
          mouseInitialized |-> TRUE]
    ELSE [pc |-> IF interfaceType \in STRING_TO_INTERFACE_TYPE THEN "sleep" ELSE "quit",
          mouseInitialized |-> TRUE]

\* solve(): g_mouse->initialize(mouseFile), then the check of its result.
solveInitializeMouse ==
    /\ solver.pc = "initializeMouse"
    /\ LET to == solveStartup(solver.pc, solver.interfaceType, solver.initializeSuccess)
       IN  solver' = [solver EXCEPT !.pc = to.pc,
                                    !.mouseInitialized = to.mouseInitialized]
    /\ UNCHANGED <<S, glut, notMainVars>>

\* solve(): the declared interface type is checked and stored in the State.
solveCheckInterfaceType ==
    /\ solver.pc = "checkInterfaceType"
    /\ LET to == solveStartup(solver.pc, solver.interfaceType, solver.initializeSuccess)
       IN  /\ solver' = [solver EXCEPT !.pc = to.pc,
                                       !.mouseInitialized = to.mouseInitialized]
           /\ S' = IF to.pc = "quit" THEN S
                   ELSE [S EXCEPT !.interfaceType = solver.interfaceType]
    /\ UNCHANGED <<glut, notMainVars>>

\* solve(): after the sleep the start tile is unfogged if necessary.
solveUnfog ==
    /\ solver.pc = "sleep"
    /\ solver' = [solver EXCEPT
                     !.pc = "solve",
                     !.startTileFoggy =
                         ~(S.interfaceType = "DISCRETE" /\ solver.unfogTileOnEntry)]
    /\ UNCHANGED <<S, glut, notMainVars>>

\* solve(): the algorithm's solve method is called.
solveAlgorithm ==
    /\ solver.pc = "solve"
    /\ solver' = [solver EXCEPT !.pc = "solving", !.solveInvoked = TRUE]
    /\ UNCHANGED <<S, glut, notMainVars>>

\* Variant: the zoomed-map keys act whatever the layout is.
MutZoomKeysInEveryLayout(key, state) ==
    CASE key = " " -> [state EXCEPT !.paused = ~state.paused]
      [] key = "l" -> [state EXCEPT !.layout = LAYOUT_CYCLE[state.layout]]
      [] key = "r" -> [state EXCEPT !.rotateZoomedMap = ~state.rotateZoomedMap]
      [] key = "i" -> [state EXCEPT !.zoomedMapScale = state.zoomedMapScale + 1]
      [] key = "o" -> [state EXCEPT !.zoomedMapScale = state.zoomedMapScale - 1]
      [] OTHER -> state

\* The State after keyPress(key).
keyPressState(key, state) ==
    CASE key = " " -> [state EXCEPT !.paused = ~state.paused]
      [] key = "l" -> [state EXCEPT !.layout = LAYOUT_CYCLE[state.layout]]
      [] key = "r" /\ state.layout # "FULL" ->
             [state EXCEPT !.rotateZoomedMap = ~state.rotateZoomedMap]
      [] key = "i" /\ state.layout # "FULL" ->
             [state EXCEPT !.zoomedMapScale = state.zoomedMapScale + 1]
      [] key = "o" /\ state.layout # "FULL" ->
             [state EXCEPT !.zoomedMapScale = state.zoomedMapScale - 1]
      [] OTHER -> state

\* The GLUT thread takes input events while the program runs.
takesInput ==
    solver.pc \notin {"off", "quit", "aborted"}

\* keyPress of the GLUT thread.
keyPress(key) ==
    /\ takesInput
    /\ key = "i" => S.zoomedMapScale < MaxZoom
    /\ key = "o" => S.zoomedMapScale > 0 - MaxZoom
    /\ S' = keyPressState(key, S)
    /\ solver' = IF key = "q" THEN [solver EXCEPT !.pc = "quit"] ELSE solver
    /\ glut' = [glut EXCEPT !.tick = 1 - @, !.kind = "key", !.key = key]
    /\ UNCHANGED notMainVars

\* specialKeyPress and specialKeyRelease: INT_TO_KEY.at(key) throws
\* std::out_of_range for a code without an entry, and nothing catches it.
specialKey(kind, code) ==
    /\ takesInput
    /\ IF code \notin DOMAIN INT_TO_KEY
       THEN /\ solver' = [solver EXCEPT !.pc = "aborted"]
            /\ S' = S
            /\ glut' = [glut EXCEPT !.tick = 1 - @, !.kind = kind, !.key = ""]
       ELSE /\ solver' = solver
            /\ IF INT_TO_KEY[code] \in ARROW_KEYS
               THEN /\ S' = [S EXCEPT !.arrowKeyIsPressed[INT_TO_KEY[code]] =
                                          (kind = "press")]
                    /\ glut' = [glut EXCEPT !.tick = 1 - @, !.kind = kind, !.key = "",
                                            !.last[INT_TO_KEY[code]] = kind]
               ELSE /\ S' = S
                    /\ glut' = [glut EXCEPT !.tick = 1 - @, !.kind = kind, !.key = ""]
    /\ UNCHANGED notMainVars

specialKeyPress(code) == specialKey("press", code)

specialKeyRelease(code) == specialKey("release", code)

(* ---------------------- mackAlgoTwo: Info records --------------------- *)

\* The values of an unsigned char.
StampModulus == 256

\* The stamp of an epoch as the sequenceNumber field holds it.
stampOf(e) == e % StampModulus

\* A record counts as visited in the current epoch when its stamp equals the
\* epoch's.
isVisited(record) == record.sequenceNumber = stampOf(epoch)

\* Nothing else of the program runs here; the record's memory holds any stamp.
InitEpoch ==
    /\ ControllerInit("epoch", "off", {[isTopLevelDir |-> FALSE, hasMainCpp |-> FALSE,
                                       buildExitCode |-> 0, checked |-> << >>]})
    /\ solver = NoSolver
    /\ S = NoState
    /\ glut = NoEvent
    /\ epoch = 0
    /\ info \in [sequenceNumber : 0..(StampModulus - 1), distance : {0}, written : {0 - 1}]

\* A new planning pass begins: nothing is cleared.
startEpoch ==
    /\ scenario = "epoch"
    /\ epoch < MaxEpochs
    /\ epoch' = epoch + 1
    /\ UNCHANGED <<info, mainVars, controllerVars>>

\* The pass reaches the cell for the first time and overwrites its record,
\* or relaxes the record it wrote earlier in this pass.
touch(distance) ==
    /\ scenario = "epoch"
    /\ isVisited(info) /\ info.written = epoch => distance <= info.distance
    /\ info' = [sequenceNumber |-> stampOf(epoch), distance |-> distance, written |-> epoch]
    /\ UNCHANGED <<epoch, mainVars, controllerVars>>

NextEpoch ==
    \/ startEpoch
    \/ \E distance \in {0, 1} : touch(distance)

SpecEpoch == InitEpoch /\ [][NextEpoch]_vars

(* --------------------------- specifications --------------------------- *)

\* What the child writes on its ordinary output: an empty line, or the text
\* of the finalizing line and of a discrete step request.
StdoutTexts == {<<NL>>, FinalizeLine \o <<NL>> \o DiscreteLine \o <<NL>>}

Next ==
    \/ startMouseAlgorithm
    \/ \E input \in TextsUpTo(textLimit - Len(received)) : processMouseAlgoStderr(input)
    \/ \E output \in StdoutTexts : processMouseAlgoStdout(output)
    \/ receiveResultFromWorker
    \/ waitForStaticOptions
    \/ callValidateMouseInterfaceType
    \/ callValidateMouseInitialDirection
    \/ callValidateTileTextRowsAndCols
    \/ callValidateMouseWheelSpeedFraction
    \/ initAndValidateMouse
    \/ newMouseInterface
    \/ workerTakesCommand
    \/ processCommand
    \/ childExits

Spec == Init /\ [][Next]_vars

SpecStartup == InitStartup /\ [][Next]_vars

\* The polling loop of the constructor keeps running, and the worker thread's
\* event loop takes and finishes every command posted to it.
SpecLive ==
    /\ InitPolling
    /\ [][Next]_vars
    /\ WF_vars(waitForStaticOptions)
    /\ WF_vars(workerTakesCommand)
    /\ WF_vars(processCommand)

NextMain ==
    \/ solveCheckAlgorithm
    \/ solveInitializeMouse
    \/ solveCheckInterfaceType
    \/ solveUnfog
    \/ solveAlgorithm
    \/ \E key \in Keys : keyPress(key)
    \/ \E code \in SpecialCodes : specialKeyPress(code)
    \/ \E code \in SpecialCodes : specialKeyRelease(code)

SpecMain == InitMain /\ [][NextMain]_vars

(* ------------------------------- claims ------------------------------- *)

\* The number of terminators in a text.
CountNL(text) == Cardinality({i \in 1..Len(text) : text[i] = NL})

\* The text before the first terminator, and the text after the last one.
BeforeFirstNL(text) ==
    SubSeq(text, 1, (CHOOSE i \in 1..Len(text) :
                        text[i] = NL /\ \A j \in 1..(i - 1) : text[j] # NL) - 1)

AfterLastNL(text) ==
    IF CountNL(text) = 0 THEN text
    ELSE SubSeq(text, (CHOOSE i \in 1..Len(text) :
                          text[i] = NL /\ \A j \in (i + 1)..Len(text) : text[j] # NL) + 1,
                Len(text))

\* The commands the worker has finished, has in hand, and has waiting.
finishedIds == {workLog[k][2] : k \in {j \in 1..Len(workLog) : workLog[j][1] = "finish"}}

pendingIds == (IF workerCurrent = 0 THEN << >> ELSE <<workerCurrent>>) \o workerQueue

isDiscrete(id) == emitted[id] = DiscreteLine

\* C1: however the text of the diagnostic stream is cut into reads, the
\* commands passed to the worker are those that one single read of the whole
\* text, on an empty buffer, passes.
C1_FramingIndependentOfChunking ==
    emitted = stderrCommands(<< >>, received)

\* A line cut in the middle by one read and completed by the next.
C1_Witness ==
    /\ lastRead.n = 2
    /\ lastRead.input = <<"f", NL>>
    /\ received = <<"m", "f", NL>>
    /\ emitted = << <<"m", "f">> >>

\* C2: the single worker runs processCommand on the commands one at a time
\* and in the order of arrival: the k-th command starts only after the
\* (k-1)-th returned, whatever the interleaving of reads and worker.
C2_ProcessedInArrivalOrder ==
    \A k \in 1..Len(workLog) :
        workLog[k] = IF k % 2 = 1 THEN <<"start", (k + 1) \div 2>>
                                  ELSE <<"finish", k \div 2>>

\* The second command started after a later read queued a third one behind it.
C2_Witness ==
    /\ lastRead.n >= 2
    /\ Len(workLog) >= 3
    /\ workerCurrent # 0
    /\ workerQueue # << >>

\* C3: at most one discrete step request is outstanding; a second one that
\* arrives while one is pending is rejected, never queued behind it.
C3_SecondDiscreteNeverQueued ==
    Cardinality({i \in 1..Len(pendingIds) : isDiscrete(pendingIds[i])}) <= 1

\* C4: while the static options are not finalized no gameplay command is
\* dispatched to or run by the worker (the mouse interface is still null),
\* and the options are declared only once.
C4_NoGameplayBeforeOptions ==
    /\ ~m_staticOptionsFinalized =>
           \A id \in 1..Len(emitted) : emitted[id] = FinalizeLine
    /\ Cardinality({id \in finishedIds : emitted[id] = FinalizeLine}) <= 1

\* C5: on both start-up paths Mouse::initialize is never called in a run
\* whose declared interface type is not a recognized one.
C5_NoInitializeWithInvalidType ==
    /\ mouse.initialized => m_staticOptions.interfaceType \in {"DISCRETE", "CONTINUOUS"}
    /\ solver.mouseInitialized => solver.interfaceType \in {"DISCRETE", "CONTINUOUS"}

\* What the results handed over so far must have put on the child's input:
\* each non-empty one followed by one newline, nothing for an empty one.
RECURSIVE C6_Lines(_)
C6_Lines(results) ==
    IF results = << >> THEN << >>
    ELSE (IF Head(results) = << >> THEN << >> ELSE Head(results) \o <<NL>>)
             \o C6_Lines(Tail(results))

\* C6: every processed command yields at most one response line: the child's
\* input holds, in order, each non-empty result followed by a single newline
\* and nothing for an empty result.
C6_OneResponseLinePerResult ==
    /\ childStdin = C6_Lines(delivered)
    /\ CountNL(childStdin) = Cardinality({i \in 1..Len(delivered) : delivered[i] # << >>})
    /\ Len(delivered) + Len(mainEvents) = Cardinality(finishedIds)

\* An empty and a non-empty result have both been handed over.
C6_Witness ==
    /\ \E i \in 1..Len(delivered) : delivered[i] = << >>
    /\ \E i \in 1..Len(delivered) : delivered[i] # << >>

\* C7: a read emits, during that invocation, one command per terminator it
\* holds; the first of them is the buffered fragment followed by the text up
\* to the first terminator; what follows the last terminator (or, without a
\* terminator, the whole read) is not emitted but joins the buffer.
C7_DispatchedWhenTerminated ==
    [][lastRead'.n # lastRead.n =>
          LET input == lastRead'.input
              n == CountNL(input)
          IN  /\ Len(emitted') = Len(emitted) + n
              /\ SubSeq(emitted', 1, Len(emitted)) = emitted
              /\ workerQueue' = workerQueue \o [i \in 1..n |-> Len(emitted) + i]
              /\ received' = received \o input
              /\ n = 0 => join(m_inputLines') = join(m_inputLines) \o input
              /\ n > 0 => /\ emitted'[Len(emitted) + 1] =
                                join(m_inputLines) \o BeforeFirstNL(input)
                          /\ join(m_inputLines') = AfterLastNL(input)]_vars

\* A fragment was buffered by one read and completed by the next, which left
\* a new fragment.
C7_Witness ==
    /\ lastRead.n = 2
    /\ lastRead.input = <<"f", NL, "m">>
    /\ received = <<"m", "f", NL, "m">>
    /\ emitted = << <<"m", "f">> >>
    /\ join(m_inputLines) = <<"m">>

\* The wall of the start tile in the direction the mouse was given.
wallAhead == IF mouse.direction = "NORTH" THEN mouse.wallNorth ELSE mouse.wallEast

\* C8 as stated: for every wall layout "OPENING" resolves to NORTH or EAST
\* without a wall and "WALL" to NORTH or EAST with a wall; a cardinal
\* direction is returned unchanged.
C8_PoliciesResolvedForEveryLayout ==
    mouse.initialized =>
        /\ m_staticOptions.initialDirection = "OPENING" =>
               mouse.direction \in {"NORTH", "EAST"} /\ ~wallAhead
        /\ m_staticOptions.initialDirection = "WALL" =>
               mouse.direction \in {"NORTH", "EAST"} /\ wallAhead
        /\ m_staticOptions.initialDirection \in {"NORTH", "EAST", "SOUTH", "WEST"} =>
               mouse.direction = m_staticOptions.initialDirection

\* C8, amended: when exactly one of the north and east sides of the start
\* tile is walled, "OPENING" resolves to the open one and "WALL" to the
\* walled one; when both or neither are walled both policies resolve to
\* NORTH; a cardinal direction is returned unchanged.
C8_PoliciesResolvedWhenSidesDiffer ==
    mouse.initialized =>
        /\ m_staticOptions.initialDirection = "OPENING" /\ mouse.wallNorth # mouse.wallEast =>
               mouse.direction \in {"NORTH", "EAST"} /\ ~wallAhead
        /\ m_staticOptions.initialDirection = "WALL" /\ mouse.wallNorth # mouse.wallEast =>
               mouse.direction \in {"NORTH", "EAST"} /\ wallAhead
        /\ m_staticOptions.initialDirection \in {"OPENING", "WALL"}
             /\ mouse.wallNorth = mouse.wallEast =>
               mouse.direction = "NORTH"
        /\ m_staticOptions.initialDirection \in {"NORTH", "EAST", "SOUTH", "WEST"} =>
               mouse.direction = m_staticOptions.initialDirection

\* "OPENING" with a wall to the north only: the mouse faces east.
C8_Witness ==
    /\ mouse.initialized
    /\ m_staticOptions.initialDirection = "OPENING"
    /\ mouse.wallNorth /\ ~mouse.wallEast
    /\ mouse.direction = "EAST"

\* C9: validateMouseInitialDirection quits exactly when the declared
\* direction is none of the four cardinal names, "OPENING" or "WALL", and
\* otherwise returns leaving every field as it was.
C9_InitialDirectionFatalIffUnrecognized ==
    [][pc = "validateMouseInitialDirection" /\ pc' # pc =>
          /\ pc' = "quit" <=>
                 m_staticOptions.initialDirection \notin
                     {"NORTH", "EAST", "SOUTH", "WEST", "OPENING", "WALL"}
          /\ pc' # "quit" => pc' = "validateTileTextRowsAndCols"
          /\ UNCHANGED <<m_process, m_staticOptionsFinalized, m_staticOptions,
                         m_mouseInterface, mouse, m_inputLines, childStdin>>]_vars

\* A derived policy passed the validation.
C9_Witness ==
    /\ pc = "validateTileTextRowsAndCols"
    /\ m_staticOptions.initialDirection = "OPENING"

\* C10: the wheel speed fraction passes exactly when it lies in [0.0, 1.0],
\* both ends included; any other value ends the run with the mouse not
\* initialized.
C10_SpeedAcceptedIffInUnitInterval ==
    [][pc = "validateMouseWheelSpeedFraction" /\ pc' # pc =>
          LET f == m_staticOptions.wheelSpeedFraction
              inside == f[1] = "num" /\ 0 <= f[2] /\ f[2] <= 1000
          IN  /\ inside => pc' = "initAndValidateMouse"
              /\ ~inside => pc' = "quit" /\ ~mouse'.initialized]_vars

\* The upper end 1.0 was accepted.
C10_Witness ==
    /\ pc = "initAndValidateMouse"
    /\ m_staticOptions.wheelSpeedFraction = <<"num", 1000>>

\* C11: validateTileTextRowsAndCols quits exactly when the declared number of
\* rows or of columns is below zero; zero rows and zero columns pass, and the
\* constructor goes on to the wheel speed fraction.
C11_TileTextFatalIffNegative ==
    [][pc = "validateTileTextRowsAndCols" /\ pc' # pc =>
          LET rows == m_staticOptions.tileTextNumberOfRows
              cols == m_staticOptions.tileTextNumberOfCols
          IN  /\ pc' = "quit" <=> (rows < 0 \/ cols < 0)
              /\ pc' # "quit" => pc' = "validateMouseWheelSpeedFraction"
              /\ rows = 0 /\ cols = 0 => pc' # "quit"]_vars

\* Zero rows and zero columns were accepted.
C11_Witness ==
    /\ pc = "validateMouseWheelSpeedFraction"
    /\ m_staticOptions.tileTextNumberOfRows = 0
    /\ m_staticOptions.tileTextNumberOfCols = 0

\* C12: once the four validations passed, the mouse is initialized and only
\* the compatibility of the declared interface type decides: the run ends
\* exactly when the initialization failed, or the type is DISCRETE and the
\* mouse is not discrete compatible, or the type is CONTINUOUS and the mouse
\* is not continuous compatible.
C12_MouseCheckedAgainstDeclaredModeOnly ==
    [][pc = "initAndValidateMouse" /\ pc' # pc =>
          LET type == m_staticOptions.interfaceType
          IN  /\ type \in {"DISCRETE", "CONTINUOUS"}
              /\ mouse'.initialized
              /\ pc' \in {"quit", "newMouseInterface"}
              /\ pc' = "quit" <=>
                     \/ ~mouse'.success
                     \/ type = "DISCRETE" /\ ~mouse'.discreteCompatible
                     \/ type = "CONTINUOUS" /\ ~mouse'.continuousCompatible]_vars

\* A DISCRETE run was accepted with a mouse that is not continuous compatible.
C12_Witness ==
    /\ pc = "newMouseInterface"
    /\ m_staticOptions.interfaceType = "DISCRETE"
    /\ mouse.success /\ mouse.discreteCompatible /\ ~mouse.continuousCompatible

\* C13: the child process is started only by startMouseAlgorithm and only
\* when, looked at in this order, the algorithm's directory exists, it holds
\* a Main.cpp and the build exited with 0; the first of these that fails
\* ends the run, nothing after it is looked at, and the child is not started.
C13_StartedOnlyAfterStartupChecks ==
    [][/\ m_process = "null" /\ m_process' # m_process =>
              /\ pc = "startMouseAlgorithm" /\ m_process' = "running"
              /\ startup.isTopLevelDir /\ startup.hasMainCpp
              /\ startup.buildExitCode = 0
              /\ startup'.checked = <<"directory", "Main.cpp", "build">>
       /\ pc = "startMouseAlgorithm" /\ pc' # pc =>
              /\ ~startup.isTopLevelDir =>
                     pc' = "quit" /\ startup'.checked = <<"directory">>
              /\ startup.isTopLevelDir /\ ~startup.hasMainCpp =>
                     pc' = "quit" /\ startup'.checked = <<"directory", "Main.cpp">>
              /\ startup.isTopLevelDir /\ startup.hasMainCpp
                   /\ startup.buildExitCode # 0 =>
                     pc' = "quit"
                     /\ startup'.checked = <<"directory", "Main.cpp", "build">>
              /\ pc' = "quit" => m_process' = "null"
       /\ pc = "quit" => pc' = "quit" /\ m_process' = m_process]_vars

\* The child runs after the three checks and has written.
C13_Witness ==
    /\ m_process # "null"
    /\ startup.checked = <<"directory", "Main.cpp", "build">>
    /\ Len(received) > 0

\* C14: a read of the ordinary output stream, also of text that is a valid
\* command on the diagnostic stream, passes no command to the worker, writes
\* nothing to the child and leaves m_inputLines and the options as they were.
C14_StdoutIsNotProtocol ==
    [][stdoutLogged' # stdoutLogged =>
          /\ FinalizeLine \in stdoutLogged' /\ DiscreteLine \in stdoutLogged'
          /\ UNCHANGED <<m_inputLines, emitted, workerQueue, workerCurrent,
                         mainEvents, childStdin, received, m_staticOptionsFinalized,
                         m_staticOptions, m_mouseInterface, pc>>]_vars

\* The finalizing line came on the ordinary output while a fragment of the
\* diagnostic stream was buffered: nothing was finalized, nothing emitted.
C14_Witness ==
    /\ stdoutLogged = {FinalizeLine, DiscreteLine}
    /\ join(m_inputLines) = <<"m">>
    /\ emitted = << >>
    /\ ~m_staticOptionsFinalized

\* C15: while the options are not finalized the constructor stays in its
\* polling loop, handling events, and neither times out nor quits; once the
\* child's finalizing line has been read there, the worker gets to it, the
\* wait ends and the validation begins.
C15_WaitEndsOnlyAndSurelyOnDeclaration ==
    /\ [][pc = "wait" /\ ~m_staticOptionsFinalized => pc' = "wait"]_vars
    /\ ([](~m_staticOptionsFinalized) => [](pc \in {"startMouseAlgorithm", "wait", "quit"}))
    /\ ((pc = "wait" /\ \E id \in 1..Len(emitted) : emitted[id] = FinalizeLine)
            ~> (pc = "validateMouseInterfaceType"))

\* During the wait two reads were handled, the worker runs a command and the
\* finalizing line is queued behind it.
C15_Witness ==
    /\ pc = "wait"
    /\ ~m_staticOptionsFinalized
    /\ lastRead.n = 2
    /\ workerCurrent # 0 /\ emitted[workerCurrent] # FinalizeLine
    /\ \E i \in 1..Len(workerQueue) : emitted[workerQueue[i]] = FinalizeLine

\* C16: in every epoch a record that was last written in an earlier epoch and
\* not touched since counts as unvisited, whatever distance it holds, and a
\* record written in the current epoch counts as visited.
C16_StaleRecordIsUnvisited ==
    /\ info.written >= 0 /\ info.written < epoch => ~isVisited(info)
    /\ info.written = epoch => isVisited(info)

\* C17: the exit of the child runs no handler: the step of the exit leaves
\* the constructor where it is and every member of the Controller as it was,
\* and from then on nothing is read or emitted, so a fragment buffered in
\* m_inputLines stays there.
C17_ChildExitUnhandled ==
    [][/\ m_process = "running" /\ m_process' = "finished" =>
              UNCHANGED <<pc, m_staticOptionsFinalized, m_staticOptions,
                          m_mouseInterface, mouse, channelVars>>
       /\ m_process = "finished" =>
              /\ m_process' = "finished"
              /\ UNCHANGED <<m_inputLines, emitted, received>>
              /\ pc \in {"wait", "done"} => pc' # "quit"]_vars

\* The child has exited leaving a fragment; the worker and the main thread
\* have nothing left to do and the constructor still waits.
C17_Witness ==
    /\ m_process = "finished"
    /\ join(m_inputLines) = FinalizeLine
    /\ pc = "wait"
    /\ workerQueue = << >> /\ workerCurrent = 0 /\ mainEvents = << >>
    /\ Len(delivered) = Len(emitted) /\ Len(emitted) > 0

\* C18: solve() calls the algorithm's solve only after, in this order, the
\* algorithm's name was found, the mouse was initialized with success and the
\* declared interface type was found valid and stored in the State; a check
\* that fails ends the run (unless a special key has by then aborted it), and
\* after that solve is never called.
C18_SolveOnlyAfterThreeChecks ==
    [][/\ solver'.pc # solver.pc /\ solver'.pc = "initializeMouse" =>
              solver.pc = "checkAlgorithm" /\ solver.algorithmKnown
       /\ solver'.pc # solver.pc /\ solver'.pc = "checkInterfaceType" =>
              /\ solver.pc = "initializeMouse"
              /\ solver.initializeSuccess /\ solver'.mouseInitialized
       /\ solver'.pc # solver.pc /\ solver'.pc = "sleep" =>
              /\ solver.pc = "checkInterfaceType"
              /\ solver.interfaceType \in {"DISCRETE", "CONTINUOUS"}
              /\ S'.interfaceType = solver.interfaceType
       /\ solver' # solver /\ solver.pc = "checkAlgorithm" /\ ~solver.algorithmKnown =>
              solver'.pc \in {"quit", "aborted"}
       /\ solver' # solver /\ solver.pc = "initializeMouse" /\ ~solver.initializeSuccess =>
              solver'.pc \in {"quit", "aborted"}
       /\ solver' # solver /\ solver.pc = "checkInterfaceType"
            /\ solver.interfaceType \notin {"DISCRETE", "CONTINUOUS"} =>
              solver'.pc \in {"quit", "aborted"}
       /\ solver.pc \in {"quit", "aborted"} =>
              solver'.pc = solver.pc /\ ~solver'.solveInvoked
       /\ solver'.solveInvoked =>
              /\ solver.pc \in {"solve", "solving"}
              /\ solver.algorithmKnown /\ solver.initializeSuccess
              /\ solver.mouseInitialized
              /\ S.interfaceType = solver.interfaceType
              /\ solver.interfaceType \in {"DISCRETE", "CONTINUOUS"}]_vars

\* The algorithm's solve runs in a CONTINUOUS run.
C18_Witness ==
    /\ solver.solveInvoked
    /\ solver.pc = "solving"
    /\ S.interfaceType = "CONTINUOUS"

\* C19: with the layout FULL the keys r, i and o change nothing of the State;
\* with another layout r toggles rotateZoomedMap and nothing else, i and o
\* change zoomedMapScale and nothing else; l moves the layout to its
\* successor in LAYOUT_CYCLE, whatever the layout is, and changes nothing else.
C19_ZoomedKeysOnlyWhenZoomedMapVisible ==
    [][glut'.tick # glut.tick /\ glut'.kind = "key" =>
          LET key == glut'.key
          IN  /\ key \in {"r", "i", "o"} /\ S.layout = "FULL" => S' = S
              /\ key = "r" /\ S.layout # "FULL" =>
                     S' = [S EXCEPT !.rotateZoomedMap = ~S.rotateZoomedMap]
              /\ key = "i" /\ S.layout # "FULL" =>
                     S' = [S EXCEPT !.zoomedMapScale = S.zoomedMapScale + 1]
              /\ key = "o" /\ S.layout # "FULL" =>
                     S' = [S EXCEPT !.zoomedMapScale = S.zoomedMapScale - 1]
              /\ key = "l" =>
                     /\ S' = [S EXCEPT !.layout = S'.layout]
                     /\ <<S.layout, S'.layout>> \in
                            {<<"FULL", "ZOOMED">>, <<"ZOOMED", "BOTH">>, <<"BOTH", "FULL">>}]_vars

\* The key r was pressed with the layout FULL, after the map had been rotated
\* and zoomed in another layout: nothing changed.
C19_Witness ==
    /\ glut.kind = "key" /\ glut.key = "r"
    /\ S.layout = "FULL"
    /\ S.rotateZoomedMap
    /\ S.zoomedMapScale = 1

\* The flag of each arrow key tells whether the key's last special-key event
\* was a press.
C20_FlagsFollowLastEvent ==
    \A key \in ARROW_KEYS : S.arrowKeyIsPressed[key] = (glut.last[key] = "press")

\* C20: after any sequence of special-key presses and releases the flag of
\* each arrow key tells whether the key's last event was a press, and no
\* special key, with or without an entry in INT_TO_KEY, has put the program
\* in an error state.
C20_SpecialKeysNeverFail ==
    /\ C20_FlagsFollowLastEvent
    /\ solver.pc # "aborted"

\* C21: the responses are written to the child in the order in which their
\* commands were dispatched: the k-th result handed over is that of the k-th
\* command passed to the worker, its line, if not empty, is put behind what
\* was written before, and the results waiting are those of the commands
\* that follow, in order; nothing is written for a command not dispatched.
C21_ResponsesInDispatchOrder ==
    [][/\ \A i \in 1..Len(mainEvents') :
              /\ mainEvents'[i].id = Len(delivered') + i
              /\ mainEvents'[i].id \in 1..Len(emitted')
       /\ Len(delivered') <= Len(emitted')
       /\ delivered' # delivered =>
              LET id == Head(mainEvents).id
              IN  /\ id = Len(delivered) + 1
                  /\ id \in 1..Len(emitted)
                  /\ delivered' = Append(delivered, Head(mainEvents).response)
                  /\ childStdin' = childStdin \o
                         (IF Head(mainEvents).response = << >> THEN << >>
                          ELSE Head(mainEvents).response \o <<NL>>)
       /\ childStdin' # childStdin => delivered' # delivered]_vars

\* Two commands with non-empty results were dispatched and both lines are
\* written, one behind the other.
C21_Witness ==
    /\ Len(delivered) = 2
    /\ delivered[1] = <<"m">> /\ delivered[2] = <<"m">>
    /\ emitted = << <<"m">>, <<"m">> >>
    /\ childStdin = <<"m", NL, "m", NL>>
    /\ mainEvents = << >>

\* The text of the commands, each followed by its terminator.
RECURSIVE C22_Framed(_)
C22_Framed(commands) ==
    IF commands = << >> THEN << >>
    ELSE Head(commands) \o <<NL>> \o C22_Framed(Tail(commands))

\* C22: after every read the fragments in m_inputLines hold no terminator,
\* and the text received so far is the emitted commands, each followed by a
\* terminator, followed by the fragments: no character is lost, duplicated
\* or moved; a read that completes a line leaves in the buffer only what
\* follows its last terminator.
C22_FramingBufferInvariant ==
    [][/\ CountNL(join(m_inputLines')) = 0
       /\ received' = C22_Framed(emitted') \o join(m_inputLines')
       /\ lastRead'.n # lastRead.n /\ CountNL(lastRead'.input) > 0 =>
              m_inputLines' = << AfterLastNL(lastRead'.input) >>
       /\ lastRead'.n # lastRead.n /\ CountNL(lastRead'.input) = 0 =>
              m_inputLines' = Append(m_inputLines, lastRead'.input)]_vars

\* A read completed a line and left a fragment, and the next read added to
\* the fragment.
C22_Witness ==
    /\ lastRead.n = 3
    /\ received = <<"f", NL, "m", "f">>
    /\ emitted = << <<"f">> >>
    /\ m_inputLines = << <<"m">>, <<"f">> >>

\* C23: with "OPENING" or "WALL" declared and the north and east sides of
\* the start tile both walled or both open, the mouse is initialized facing
\* NORTH, so the two policies give the same direction there.
C23_PoliciesAgreeWhenSidesAlike ==
    /\ mouse.initialized
         /\ m_staticOptions.initialDirection \in
                {OPENING_DIRECTION_STRING, WALL_DIRECTION_STRING}
         /\ mouse.wallNorth = mouse.wallEast =>
           mouse.direction = "NORTH"
    /\ \A wall \in BOOLEAN :
           /\ getInitialDirection(OPENING_DIRECTION_STRING, wall, wall) = "NORTH"
           /\ getInitialDirection(WALL_DIRECTION_STRING, wall, wall) =
                  getInitialDirection(OPENING_DIRECTION_STRING, wall, wall)

\* "WALL" with neither side walled: the mouse faces north, where no wall is.
C23_Witness ==
    /\ mouse.initialized
    /\ m_staticOptions.initialDirection = WALL_DIRECTION_STRING
    /\ ~mouse.wallNorth /\ ~mouse.wallEast
    /\ mouse.direction = "NORTH"

\* Whether the declared options pass the four validations.
C24_OptionsValid ==
    /\ m_staticOptions.interfaceType \in {"DISCRETE", "CONTINUOUS"}
    /\ m_staticOptions.initialDirection \in
           {"NORTH", "EAST", "SOUTH", "WEST", "OPENING", "WALL"}
    /\ m_staticOptions.tileTextNumberOfRows >= 0
    /\ m_staticOptions.tileTextNumberOfCols >= 0
    /\ m_staticOptions.wheelSpeedFraction[1] = "num"
    /\ m_staticOptions.wheelSpeedFraction[2] \in 0..1000

\* Whether the mouse passed its initialization and the check of its mode.
C24_MouseValid ==
    /\ mouse.initialized /\ mouse.success
    /\ mouse.evaluated = <<"initialize", "compatible">>
    /\ IF m_staticOptions.interfaceType = "DISCRETE"
       THEN mouse.discreteCompatible ELSE mouse.continuousCompatible

\* The place of each check in the constructor, 0 for any other place.
C24_Rank(at) ==
    CASE at = "validateMouseInterfaceType" -> 1
      [] at = "validateMouseInitialDirection" -> 2
      [] at = "validateTileTextRowsAndCols" -> 3
      [] at = "validateMouseWheelSpeedFraction" -> 4
      [] at = "initAndValidateMouse" -> 5
      [] at = "newMouseInterface" -> 6
      [] OTHER -> 0

\* C24: m_mouseInterface is null until the constructor's last step and is set
\* only after the six checks passed in the order interface type, initial
\* direction, tile-text dimensions, wheel speed fraction, initialization of
\* the mouse, compatibility with the mode; the first check that fails ends
\* the run and no later check is made.
C24_InterfaceOnlyAfterAllChecks ==
    [][/\ m_mouseInterface' => pc' = "done" /\ C24_OptionsValid' /\ C24_MouseValid'
       /\ m_mouseInterface' /\ ~m_mouseInterface => pc = "newMouseInterface"
       /\ C24_Rank(pc) > 0 /\ pc' # pc =>
              \/ pc' = "quit"
              \/ C24_Rank(pc') = C24_Rank(pc) + 1
              \/ C24_Rank(pc) = 6 /\ pc' = "done"
       /\ C24_Rank(pc') = 2 => m_staticOptions'.interfaceType \in {"DISCRETE", "CONTINUOUS"}
       /\ C24_Rank(pc') = 5 => C24_OptionsValid' /\ ~mouse'.initialized
       /\ mouse'.initialized => C24_OptionsValid'
       /\ C24_Rank(pc') = 6 => C24_MouseValid'
       /\ "compatible" \in {mouse'.evaluated[i] : i \in 1..Len(mouse'.evaluated)} =>
              mouse'.success
       /\ pc = "quit" => pc' = "quit" /\ mouse' = mouse /\ ~m_mouseInterface']_vars

\* The interface exists for a CONTINUOUS run that declared "WALL".
C24_Witness ==
    /\ m_mouseInterface
    /\ m_staticOptions.interfaceType = "CONTINUOUS"
    /\ m_staticOptions.initialDirection = "WALL"
    /\ mouse.continuousCompatible /\ ~mouse.discreteCompatible

====
